---- MODULE Spec2Model ----
(***************************************************************************)
(* Model of the G-code tool switcher of CMYK.py: GCodeToolSwitcher         *)
(* (parse_layers, calculate_tool_distribution, modify_gcode, process_file) *)
(* and the App.process_gcode handler that validates the ratio pattern and  *)
(* drives it.                                                              *)
(*                                                                         *)
(* A line of G-code is a sequence of whitespace-separated tokens.  A token *)
(* is a record [k, n]: k is the text of the token up to its number and n   *)
(* the number (0 when the token has none).  "T2" is [k |-> "T", n |-> 2],  *)
(* "P120" is [k |-> "P", n |-> 120].  The regular expressions of the       *)
(* switcher become searches over token sequences.  Line indices and tool   *)
(* ids are 0-based as in the code; TLA+ sequences are 1-based, so line i   *)
(* of the code is element i + 1 of the sequence.                           *)
(*                                                                         *)
(* Ratio counts are floats in the code; here a count is an integer number  *)
(* of 1/Unit layers (Unit = 2: 1 is 0.5, 2 is 1.0, 3 is 1.5).              *)
(***************************************************************************)
EXTENDS Integers, Sequences, FiniteSets

----------------------------------------------------------------------------
(* Bounds of the model *)

NumTools == 3        \* tools of the configuration (ids 0 .. NumTools - 1)
MaxLines == 4        \* lines of a document
MaxLayers == 6       \* layer count handed to the planner on its own
MaxCount == 4        \* largest ratio count, in 1/Unit layers
MaxEntry == 2
MaxCallLines == 3        \* largest ratio entry typed in the form, in 1/Unit

Unit == 2

None == -1           \* Python's None for current_tool / active_tool
Invalid == -1        \* a ratio entry whose text float() rejects

Tools == 0 .. (NumTools - 1)

----------------------------------------------------------------------------
(* Tokens and the lines of the G-code dialect *)

Tok(k, n) == [k |-> k, n |-> n]

layer_markers == Tok(";LAYER_CHANGE", 0)

\* kinds of token whose text holds a ';'
CommentKinds == {";LAYER_CHANGE", ";", "; switch to tool", "; change tool",
                 "; switched from T"}

\* kinds of token whose text holds "T<digits>"
TKinds == {"T", "; switched from T", "to T", "- skipped parking as T",
           "- skipped pickup as T", "- skipped as T"}

MarkerLine == << layer_markers >>
ParkLine == << Tok("P", 0), Tok("S", 1), Tok("L", 2), Tok("D", 0) >>
PickupLine(t) == << Tok("T", t), Tok("S", 1), Tok("L", 0), Tok("D", 0) >>
\* the form of tool_change_commands: "M104.1 T0 P120 Q122 S210 ; switch to tool 0 (Cyan)"
HeaterLine(t) ==
  << Tok("M104.1", 0), Tok("T", t), Tok("P", 120), Tok("Q", 122), Tok("S", 210),
     Tok("; switch to tool", t), Tok("(name)", t) >>
HeaterPLine(t) == << Tok("M104.1", 0), Tok("T", t), Tok("P", 100) >>
HeaterBareLine(t) == << Tok("M104.1", 0), Tok("T", t) >>
GenericLine(t) == << Tok("T", t), Tok("S", 1), Tok("L", 1), Tok("D", 0) >>
LeadingLine(t) == << Tok("T", t), Tok("; change tool", 0) >>
OtherLine == << Tok("G1", 0) >>
EmptyLine == << >>

\* the lines a document of the rewriter is made of
CommandLines ==
  { ParkLine, PickupLine(0), PickupLine(1), HeaterLine(0), HeaterPLine(1),
    HeaterBareLine(1), GenericLine(0), LeadingLine(0), OtherLine }
Alphabet == {MarkerLine} \cup CommandLines

\* lines that match two forms at once: a heater-preselect command that has
\* the S, L and D parameters of the generic form, and a layer marker behind
\* a leading tool token
HeaterGenericLine(t) ==
  << Tok("M104.1", 0), Tok("T", t), Tok("S", 210), Tok("L", 0), Tok("D", 0) >>
MarkerLeadingLine(t) == << Tok("T", t), layer_markers >>
CallAlphabet == Alphabet \cup { HeaterGenericLine(0), MarkerLeadingLine(0) }

\* the lines a file of the whole conversion is made of
FileAlphabet == { MarkerLine, PickupLine(0), EmptyLine }

SeqsUpTo(S, n) == UNION { [1 .. l -> S] : l \in 1 .. n }

SeqsWithin(S, n) == UNION { [1 .. l -> S] : l \in 0 .. n }

----------------------------------------------------------------------------
(* The compiled patterns of GCodeToolSwitcher.__init__, as searches: each  *)
(* returns the position of the first match in the line, 0 when none.       *)

FirstIdx(S) == IF S = {} THEN 0 ELSE CHOOSE j \in S : \A m \in S : j <= m

IsMarker(line) == \E j \in 1 .. Len(line) : line[j] = layer_markers

park_pattern(line) ==
  FirstIdx({ j \in 1 .. (Len(line) - 3) :
               /\ line[j] = Tok("P", 0) /\ line[j + 1] = Tok("S", 1)
               /\ line[j + 2] = Tok("L", 2) /\ line[j + 3] = Tok("D", 0) })

pickup_pattern(line) ==
  FirstIdx({ j \in 1 .. (Len(line) - 3) :
               /\ line[j].k = "T" /\ line[j + 1] = Tok("S", 1)
               /\ line[j + 2] = Tok("L", 0) /\ line[j + 3] = Tok("D", 0) })

m104_pattern(line) ==
  FirstIdx({ j \in 1 .. (Len(line) - 1) :
               line[j].k = "M104.1" /\ line[j + 1].k = "T" })

tool_pattern(line) ==
  FirstIdx({ j \in 1 .. (Len(line) - 3) :
               /\ line[j].k = "T" /\ line[j + 1].k = "S"
               /\ line[j + 2].k = "L" /\ line[j + 3].k = "D" })

simple_tool_pattern(line) ==
  IF Len(line) >= 2 /\ line[1].k = "T" /\ line[2].k \in CommentKinds
  THEN 1 ELSE 0

\* re.search(r'P(\d+)', line) and its Q and S siblings
ParamSearch(line, kind) == FirstIdx({ j \in 1 .. Len(line) : line[j].k = kind })

\* re.search(r';.*$', line)
CommentSearch(line) ==
  FirstIdx({ j \in 1 .. Len(line) : line[j].k \in CommentKinds })

----------------------------------------------------------------------------
(* The rewrites of one line *)

\* re.sub(r'T\d+', f'T{current_tool}', line)
SubT(line, tool) ==
  [ j \in 1 .. Len(line) |->
      IF line[j].k \in TKinds THEN Tok(line[j].k, tool) ELSE line[j] ]

\* re.sub(r'\bT\d+\b', f'T{current_tool}', line)
SubWordT(line, tool) ==
  [ j \in 1 .. Len(line) |->
      IF line[j].k \in TKinds THEN Tok(line[j].k, tool) ELSE line[j] ]

\* re.sub(r'^T\d+', f'T{current_tool}', line)
SubLeadingT(line, tool) ==
  IF Len(line) >= 1 /\ line[1].k = "T"
  THEN [ line EXCEPT ![1] = Tok("T", tool) ] ELSE line

\* f"; {line} - skipped ... as T{current_tool} ({name}) is already active"
SkipAnnotate(line, what, tool) ==
  << Tok(";", 0) >> \o line \o
  << Tok(what, tool), Tok("(name) is already active", tool) >>

\* DefaultQ from the default of P
DefaultQFromDefaultP(p_value, tool) == 120 + tool + 1

\* line 94: str(int(p_value) + current_tool + 1)
DefaultQ(p_value, tool) == p_value + tool + 1

\* NewCommand with the two tools exchanged
NewCommandOldTool(line, old_tool, tool) ==
  LET p_match == ParamSearch(line, "P")
      q_match == ParamSearch(line, "Q")
      s_match == ParamSearch(line, "S")
      p_value == IF p_match # 0 THEN line[p_match].n ELSE 120
      q_value == IF q_match # 0 THEN line[q_match].n ELSE p_value + old_tool + 1
      s_value == IF s_match # 0 THEN line[s_match].n ELSE 210
      comment_match == CommentSearch(line)
  IN  << Tok("M104.1", 0), Tok("T", old_tool), Tok("P", p_value),
         Tok("Q", q_value), Tok("S", s_value) >> \o
      ( IF comment_match # 0
        THEN SubSeq(line, comment_match, Len(line))
        ELSE << Tok("; switched from T", tool), Tok("(name)", tool),
                Tok("to T", old_tool), Tok("(name)", old_tool) >> )

\* the replacement heater command of lines 90-101
NewCommand(line, old_tool, tool) ==
  LET p_match == ParamSearch(line, "P")
      q_match == ParamSearch(line, "Q")
      s_match == ParamSearch(line, "S")
      p_value == IF p_match # 0 THEN line[p_match].n ELSE 120
      q_value == IF q_match # 0 THEN line[q_match].n ELSE DefaultQ(p_value, tool)
      s_value == IF s_match # 0 THEN line[s_match].n ELSE 210
      comment_match == CommentSearch(line)
  IN  << Tok("M104.1", 0), Tok("T", tool), Tok("P", p_value),
         Tok("Q", q_value), Tok("S", s_value) >> \o
      ( IF comment_match # 0
        THEN SubSeq(line, comment_match, Len(line))
        ELSE << Tok("; switched from T", old_tool), Tok("(name)", old_tool),
                Tok("to T", tool), Tok("(name)", tool) >> )

----------------------------------------------------------------------------
(* modify_gcode, the body of the loop for one line.  A step takes the      *)
(* original text of the line (the loop variable `line`), the desired tool  *)
(* and the result so far: out is modified_gcode[i], act is active_tool and *)
(* cont is FALSE once a `continue` has been taken.                         *)

Result(out, act, cont) == [out |-> out, act |-> act, cont |-> cont]

\* ParkStep that does not look at active_tool
ParkStepWhenever(line, tool, st) ==
  IF park_pattern(line) # 0
  THEN Result(SkipAnnotate(line, "- skipped parking as T", tool), st.act, FALSE)
  ELSE st

ParkStep(line, tool, st) ==
  IF park_pattern(line) # 0 /\ st.act = tool
  THEN Result(SkipAnnotate(line, "- skipped parking as T", tool), st.act, FALSE)
  ELSE st

\* PickupStep without the assignment of line 84
PickupStepLeavesActive(line, tool, st) ==
  LET pickup_match == pickup_pattern(line)
  IN  IF pickup_match = 0 THEN st
      ELSE LET tool_to_pickup == line[pickup_match].n
           IN  IF tool_to_pickup # tool
               THEN Result(SubT(line, tool), tool, TRUE)
               ELSE IF st.act = tool
               THEN Result(SkipAnnotate(line, "- skipped pickup as T", tool),
                           st.act, FALSE)
               ELSE st

PickupStep(line, tool, st) ==
  LET pickup_match == pickup_pattern(line)
  IN  IF pickup_match = 0 THEN st
      ELSE LET tool_to_pickup == line[pickup_match].n
           IN  IF tool_to_pickup # tool
               THEN Result(SubT(line, tool), tool, TRUE)
               ELSE IF st.act = tool
               THEN Result(SkipAnnotate(line, "- skipped pickup as T", tool),
                           st.act, FALSE)
               ELSE Result(st.out, tool, TRUE)

\* HeaterStep without the continue of line 107
HeaterStepGoesOn(line, tool, st) ==
  LET m104_match == m104_pattern(line)
  IN  IF m104_match = 0 THEN st
      ELSE LET old_tool == line[m104_match + 1].n
           IN  IF old_tool = tool THEN st
               ELSE IF st.act # tool
               THEN Result(NewCommand(line, old_tool, tool), tool, TRUE)
               ELSE Result(SkipAnnotate(line, "- skipped as T", tool),
                           st.act, TRUE)

HeaterStep(line, tool, st) ==
  LET m104_match == m104_pattern(line)
  IN  IF m104_match = 0 THEN st
      ELSE LET old_tool == line[m104_match + 1].n
           IN  IF old_tool = tool THEN st
               ELSE IF st.act # tool
               THEN Result(NewCommand(line, old_tool, tool), tool, TRUE)
               ELSE Result(SkipAnnotate(line, "- skipped as T", tool),
                           st.act, FALSE)

\* ToolStep that rewrites the token and leaves active_tool alone
ToolStepKeepsActive(line, tool, st) ==
  LET tool_match == tool_pattern(line)
  IN  IF tool_match = 0 THEN st
      ELSE LET old_tool == line[tool_match].n
           IN  IF old_tool # tool
               THEN Result(SubWordT(line, tool), st.act, TRUE)
               ELSE st

ToolStep(line, tool, st) ==
  LET tool_match == tool_pattern(line)
  IN  IF tool_match = 0 THEN st
      ELSE LET old_tool == line[tool_match].n
           IN  IF old_tool # tool
               THEN Result(SubWordT(line, tool), tool, TRUE)
               ELSE st

SimpleStep(line, tool, st) ==
  LET simple_match == simple_tool_pattern(line)
  IN  IF simple_match = 0 THEN st
      ELSE LET old_tool == line[simple_match].n
           IN  IF old_tool # tool
               THEN Result(SubLeadingT(line, tool), tool, TRUE)
               ELSE st

\* ModifySteps without the test of line 67
ModifyStepsUnguarded(line, tool, act) ==
  LET s0 == ParkStep(line, tool, Result(line, act, TRUE))
      s1 == IF s0.cont THEN PickupStep(line, tool, s0) ELSE s0
      s2 == IF s1.cont THEN HeaterStep(line, tool, s1) ELSE s1
      s3 == IF s2.cont THEN ToolStep(line, tool, s2) ELSE s2
      s4 == IF s3.cont THEN SimpleStep(line, tool, s3) ELSE s3
  IN  << s0, s1, s2, s3, s4 >>

\* lines 67-121: the patterns in their order, each skipped after a continue;
\* the results after the park, pickup, heater, generic and leading branch
ModifySteps(line, tool, act) ==
  IF tool = None
  THEN [ b \in 1 .. 5 |-> Result(line, act, TRUE) ]
  ELSE LET s0 == ParkStep(line, tool, Result(line, act, TRUE))
           s1 == IF s0.cont THEN PickupStep(line, tool, s0) ELSE s0
           s2 == IF s1.cont THEN HeaterStep(line, tool, s1) ELSE s1
           s3 == IF s2.cont THEN ToolStep(line, tool, s2) ELSE s2
           s4 == IF s3.cont THEN SimpleStep(line, tool, s3) ELSE s3
       IN  << s0, s1, s2, s3, s4 >>

\* the line and active_tool at the end of the loop body
ModifyOne(line, tool, act) == ModifySteps(line, tool, act)[5]

\* SetLine as an insertion before line idx
SetLineInsert(doc, idx, text) ==
  SubSeq(doc, 1, idx) \o << text >> \o SubSeq(doc, idx + 1, Len(doc))

\* modified_gcode[i] = text
SetLine(doc, idx, text) == [ doc EXCEPT ![idx + 1] = text ]

\* lines 63-66: the layer and the tool wanted for line idx
\* LayerAt without the test of line 63
LayerAtAnyLine(idx, positions, layer) == layer + 1

LayerAt(idx, positions, layer) ==
  IF \E j \in 1 .. Len(positions) : positions[j] = idx THEN layer + 1 ELSE layer

ToolAt(idx, positions, layer, sequence, tool) ==
  IF (\E j \in 1 .. Len(positions) : positions[j] = idx)
     /\ LayerAt(idx, positions, layer) < Len(sequence)
  THEN sequence[LayerAt(idx, positions, layer) + 1]
  ELSE tool

----------------------------------------------------------------------------
(* parse_layers: the indices of the lines that hold the layer marker *)

RECURSIVE ParseFrom(_, _, _)
ParseFrom(lines, idx, layers) ==
  IF idx >= Len(lines) THEN layers
  ELSE ParseFrom(lines, idx + 1,
                 IF IsMarker(lines[idx + 1]) THEN Append(layers, idx) ELSE layers)

\* parse_layers that starts at the second line
parse_layers_skip_first(lines) == ParseFrom(lines, 1, << >>)

parse_layers(lines) == ParseFrom(lines, 0, << >>)

----------------------------------------------------------------------------
(* calculate_tool_distribution, the pieces of one turn of its for loop *)

\* IntPart that rounds up
IntPartCeil(count) == (count + Unit - 1) \div Unit

IntPart(count) == count \div Unit          \* int(count)

\* HasFraction that finds none
HasFractionNever(count) == FALSE

HasFraction(count) == count % Unit > 0     \* count % 1 > 0

\* AppendRange with one turn too many
AppendRangeInclusive(sequence, tool, n, total) ==
  sequence \o
  [ k \in 1 .. (IF n + 1 < total - Len(sequence) THEN n + 1
                ELSE total - Len(sequence)) |-> tool ]

\* for _ in range(n): append while the sequence is short, else break
RECURSIVE AppendRange(_, _, _, _)
AppendRange(sequence, tool, n, total) ==
  IF n <= 0 \/ Len(sequence) >= total THEN sequence
  ELSE AppendRange(Append(sequence, tool), tool, n - 1, total)

\* AppendFraction without the test of the length
AppendFractionUnchecked(sequence, tool, count, total) ==
  IF HasFraction(count) THEN Append(sequence, tool) ELSE sequence

\* if count % 1 > 0 and len(tool_sequence) < total_layers: append
AppendFraction(sequence, tool, count, total) ==
  IF HasFraction(count) /\ Len(sequence) < total
  THEN Append(sequence, tool) ELSE sequence

RECURSIVE SumSeq(_)
SumSeq(s) == IF s = << >> THEN 0 ELSE Head(s) + SumSeq(Tail(s))

----------------------------------------------------------------------------
(* State *)

VARIABLES
  input_file_var,   \* text of the input path entry ("" when empty)
  output_file_var,  \* text of the output path entry
  input_exists,     \* os.path.exists(input_file)
  tool_entries,     \* the ratio entries of the form, one per tool
  input_content,    \* the lines of the input file
  output_content,   \* the lines written to the output file
  effects,          \* what the attempt has done: "read", "plan", "write"
  error,            \* text of the error box shown, "" when none
  pc,               \* position in process_gcode / process_file
  gcode_lines, layer_positions, total_layers,
  ratio_pattern, tool_sequence, tool_idx,
  modified_gcode, i, current_layer, current_tool, active_tool,
  branch,           \* modified_gcode[i], active_tool and whether the body
                    \* goes on, after each branch of the body for the last line
  pass,             \* 1 for a conversion, 2 for a conversion of its output
  first_pass        \* the output of pass 1, kept while pass 2 runs

form == << input_file_var, output_file_var, input_exists, tool_entries,
           input_content >>
plan == << ratio_pattern, tool_sequence, tool_idx >>
rewrite == << modified_gcode, i, current_layer, current_tool, active_tool,
             branch >>
vars == << form, output_content, effects, error, pc, gcode_lines,
           layer_positions, total_layers, plan, rewrite, pass, first_pass >>

EntryValues == {Invalid} \cup (0 .. MaxEntry)

\* the window as constructed, before "Process G-code" is pressed
Init ==
  /\ input_file_var \in {"", "in.gcode"}
  /\ output_file_var \in {"", "out.gcode"}
  /\ input_exists \in BOOLEAN
  /\ tool_entries \in [1 .. NumTools -> EntryValues]
  /\ input_content \in SeqsUpTo(FileAlphabet, MaxLines)
  /\ output_content = << >>
  /\ effects = {}
  /\ error = ""
  /\ pc = "idle"
  /\ gcode_lines = << >> /\ layer_positions = << >> /\ total_layers = 0
  /\ ratio_pattern = << >> /\ tool_sequence = << >> /\ tool_idx = 0
  /\ modified_gcode = << >> /\ i = 0 /\ current_layer = -1
  /\ current_tool = None /\ active_tool = None /\ branch = << >>
  /\ pass = 1 /\ first_pass = << >>

\* the planner called on its own with a layer count and a pattern of sum > 0
InitPlan ==
  /\ input_file_var = "in.gcode" /\ output_file_var = "out.gcode"
  /\ input_exists = TRUE
  /\ ratio_pattern \in [1 .. NumTools -> 0 .. MaxCount]
  /\ SumSeq(ratio_pattern) > 0
  /\ tool_entries = ratio_pattern
  /\ total_layers \in 0 .. MaxLayers
  /\ input_content = << >> /\ output_content = << >>
  /\ effects = {"plan"}
  /\ error = ""
  /\ pc = "plan_while"
  /\ gcode_lines = << >> /\ layer_positions = << >>
  /\ tool_sequence = << >> /\ tool_idx = 0
  /\ modified_gcode = << >> /\ i = 0 /\ current_layer = -1
  /\ current_tool = None /\ active_tool = None /\ branch = << >>
  /\ pass = 1 /\ first_pass = << >>

\* modify_gcode called on a document, its layer positions and a tool
\* sequence with one tool per layer
InitRewrite ==
  /\ input_file_var = "in.gcode" /\ output_file_var = "out.gcode"
  /\ input_exists = TRUE
  /\ tool_entries = << >> /\ ratio_pattern = << >>
  /\ gcode_lines \in SeqsUpTo(Alphabet, MaxLines)
  /\ input_content = gcode_lines
  /\ layer_positions = parse_layers(gcode_lines)
  /\ total_layers = Len(layer_positions)
  /\ tool_sequence \in [1 .. total_layers -> Tools]
  /\ tool_idx = 0
  /\ output_content = << >>
  /\ effects = {"read", "plan"}
  /\ error = ""
  /\ pc = "modify"
  /\ modified_gcode = gcode_lines /\ i = 0 /\ current_layer = -1
  /\ current_tool = None /\ active_tool = None /\ branch = << >>
  /\ pass = 1 /\ first_pass = << >>

\* modify_gcode called on its own: any document of the dialect, forms that
\* overlap included, and a tool sequence that may end before the layers do
InitCall ==
  /\ input_file_var = "in.gcode" /\ output_file_var = "out.gcode"
  /\ input_exists = TRUE
  /\ tool_entries = << >> /\ ratio_pattern = << >>
  /\ gcode_lines \in SeqsUpTo(CallAlphabet, MaxCallLines)
  /\ input_content = gcode_lines
  /\ layer_positions = parse_layers(gcode_lines)
  /\ total_layers = Len(layer_positions)
  /\ tool_sequence \in SeqsWithin(Tools, total_layers)
  /\ tool_idx = 0
  /\ output_content = << >>
  /\ effects = {"read", "plan"}
  /\ error = ""
  /\ pc = "modify"
  /\ modified_gcode = gcode_lines /\ i = 0 /\ current_layer = -1
  /\ current_tool = None /\ active_tool = None /\ branch = << >>
  /\ pass = 1 /\ first_pass = << >>

\* calculate_tool_distribution called on its own: any layer count and any
\* pattern of counts, the empty one and the all-zero ones included
InitPlanAny ==
  /\ input_file_var = "in.gcode" /\ output_file_var = "out.gcode"
  /\ input_exists = TRUE
  /\ ratio_pattern \in [1 .. NumTools -> 0 .. MaxCount] \cup { << >> }
  /\ tool_entries = ratio_pattern
  /\ total_layers \in 0 .. MaxLayers
  /\ input_content = << >> /\ output_content = << >>
  /\ effects = {"plan"}
  /\ error = ""
  /\ pc = "plan_while"
  /\ gcode_lines = << >> /\ layer_positions = << >>
  /\ tool_sequence = << >> /\ tool_idx = 0
  /\ modified_gcode = << >> /\ i = 0 /\ current_layer = -1
  /\ current_tool = None /\ active_tool = None /\ branch = << >>
  /\ pass = 1 /\ first_pass = << >>

----------------------------------------------------------------------------
(* App.process_gcode up to the call of process_file, with get_current_pattern *)

Reject(message) ==
  /\ error' = message
  /\ pc' = "returned"
  /\ UNCHANGED ratio_pattern

\* PatternRejected with < for <=
PatternRejectedStrict(pattern) == SumSeq(pattern) < 0

PatternRejected(pattern) == SumSeq(pattern) <= 0

ProcessGcode ==
  /\ pc = "idle"
  /\ IF input_file_var = "" \/ output_file_var = ""
     THEN Reject("Please specify both input and output files")
     ELSE IF ~ input_exists
     THEN Reject("Input file not found")
     ELSE IF \E t \in 1 .. Len(tool_entries) : tool_entries[t] = Invalid
     THEN Reject("Please enter valid numbers for all tools")
     ELSE IF PatternRejected(tool_entries)
     THEN Reject("At least one tool must have a value greater than zero")
     ELSE /\ ratio_pattern' = tool_entries
          /\ pc' = "read"
          /\ UNCHANGED error
  /\ UNCHANGED << form, output_content, effects, gcode_lines, layer_positions,
                  total_layers, tool_sequence, tool_idx, rewrite, pass,
                  first_pass >>

(* process_file *)

\* lines 125-126: read the input file
ReadInput ==
  /\ pc = "read"
  /\ gcode_lines' = input_content
  /\ effects' = effects \cup {"read"}
  /\ pc' = "parse"
  /\ UNCHANGED << form, output_content, error, layer_positions, total_layers,
                  plan, rewrite, pass, first_pass >>

\* lines 127-129: locate the layers and call the planner
ParseLayers ==
  /\ pc = "parse"
  /\ layer_positions' = parse_layers(gcode_lines)
  /\ total_layers' = Len(parse_layers(gcode_lines))
  /\ tool_sequence' = << >>
  /\ effects' = effects \cup {"plan"}
  /\ pc' = "plan_while"
  /\ UNCHANGED << form, output_content, error, gcode_lines, ratio_pattern,
                  tool_idx, rewrite, pass, first_pass >>

\* line 43 and line 54: the test of the while loop, and the return
PlanWhile ==
  /\ pc = "plan_while"
  /\ IF Len(tool_sequence) < total_layers
     THEN pc' = "plan_for" /\ tool_idx' = 0
     ELSE pc' = "planned" /\ UNCHANGED tool_idx
  /\ UNCHANGED << form, output_content, effects, error, gcode_lines,
                  layer_positions, total_layers, ratio_pattern, tool_sequence,
                  rewrite, pass, first_pass >>

\* lines 44-53: one turn of the for loop over the pattern
PlanFor ==
  /\ pc = "plan_for"
  /\ IF tool_idx < Len(ratio_pattern)
     THEN LET count == ratio_pattern[tool_idx + 1]
              whole == AppendRange(tool_sequence, tool_idx, IntPart(count),
                                   total_layers)
              grown == AppendFraction(whole, tool_idx, count, total_layers)
          IN  /\ tool_sequence' = grown
              /\ IF Len(grown) >= total_layers
                 THEN pc' = "plan_while" /\ UNCHANGED tool_idx
                 ELSE pc' = "plan_for" /\ tool_idx' = tool_idx + 1
     ELSE /\ pc' = "plan_while"
          /\ UNCHANGED << tool_sequence, tool_idx >>
  /\ UNCHANGED << form, output_content, effects, error, gcode_lines,
                  layer_positions, total_layers, ratio_pattern, rewrite, pass,
                  first_pass >>

\* lines 58-61: the copy and the locals of modify_gcode
StartModify ==
  /\ pc = "planned"
  /\ modified_gcode' = gcode_lines
  /\ i' = 0
  /\ current_layer' = -1
  /\ current_tool' = None
  /\ active_tool' = None
  /\ branch' = << >>
  /\ pc' = "modify"
  /\ UNCHANGED << form, output_content, effects, error, gcode_lines,
                  layer_positions, total_layers, plan, pass, first_pass >>

\* lines 62-121: the loop body for line i
ModifyLine ==
  /\ pc = "modify"
  /\ i < Len(modified_gcode)
  /\ LET line == modified_gcode[i + 1]
         tool == ToolAt(i, layer_positions, current_layer, tool_sequence,
                        current_tool)
         r == ModifyOne(line, tool, active_tool)
     IN  /\ branch' = ModifySteps(line, tool, active_tool)
         /\ current_layer' = LayerAt(i, layer_positions, current_layer)
         /\ current_tool' = tool
         /\ modified_gcode' = SetLine(modified_gcode, i, r.out)
         /\ active_tool' = r.act
  /\ i' = i + 1
  /\ UNCHANGED << form, output_content, effects, error, pc, gcode_lines,
                  layer_positions, total_layers, plan, pass, first_pass >>

\* line 122: return modified_gcode
ModifyReturn ==
  /\ pc = "modify"
  /\ i >= Len(modified_gcode)
  /\ pc' = "modified"
  /\ UNCHANGED << form, output_content, effects, error, gcode_lines,
                  layer_positions, total_layers, plan, rewrite, pass,
                  first_pass >>

\* lines 131-133: write the output file and return to process_gcode
WriteOutput ==
  /\ pc = "modified"
  /\ output_content' = modified_gcode
  /\ effects' = effects \cup {"write"}
  /\ pc' = "returned"
  /\ UNCHANGED << form, error, gcode_lines, layer_positions, total_layers,
                  plan, rewrite, pass, first_pass >>

\* modify_gcode run again on its own output, with the same layer positions
\* and the same tool sequence
Rerun ==
  /\ pc = "modified"
  /\ pass = 1
  /\ pass' = 2
  /\ first_pass' = modified_gcode
  /\ gcode_lines' = modified_gcode
  /\ i' = 0
  /\ current_layer' = -1
  /\ current_tool' = None
  /\ active_tool' = None
  /\ branch' = << >>
  /\ pc' = "modify"
  /\ UNCHANGED << form, output_content, effects, error, layer_positions,
                  total_layers, plan, modified_gcode >>

Next ==
  \/ ProcessGcode
  \/ ReadInput
  \/ ParseLayers
  \/ PlanWhile
  \/ PlanFor
  \/ StartModify
  \/ ModifyLine
  \/ ModifyReturn
  \/ WriteOutput

NextPlan == PlanWhile \/ PlanFor

NextRewrite == ModifyLine \/ ModifyReturn \/ Rerun

Spec == Init /\ [][Next]_vars
SpecPlan == InitPlan /\ [][NextPlan]_vars
SpecRewrite == InitRewrite /\ [][NextRewrite]_vars
SpecCall == InitCall /\ [][NextRewrite]_vars
\* the interpreter runs the loops of the planner on: a step that can be
\* taken is taken
SpecPlanLive == InitPlanAny /\ [][NextPlan]_vars /\ WF_vars(NextPlan)

TypeOK ==
  /\ pc \in {"idle", "read", "parse", "plan_while", "plan_for", "planned",
             "modify", "modified", "returned"}
  /\ current_tool \in Tools \cup {None}
  /\ active_tool \in Tools \cup {None}
  /\ Len(modified_gcode) <= MaxLines
  /\ i \in 0 .. MaxLines
  /\ pass \in {1, 2}

----------------------------------------------------------------------------
(* Vocabulary of the properties *)

Abs(x) == IF x < 0 THEN 0 - x ELSE x

Rewriting == pc \in {"modify", "modified"}

\* index of the layer that line idx belongs to, -1 before the first marker
LayerOf(idx) ==
  Cardinality({ j \in 1 .. Len(layer_positions) : layer_positions[j] <= idx }) - 1

\* the tool planned for the layer of line idx
PlannedTool(idx) == tool_sequence[LayerOf(idx) + 1]

\* the line is a comment from its first token on
Commented(line) == Len(line) >= 1 /\ line[1].k \in CommentKinds

\* the tools named by the command forms an emitted line matches
NamedTools(line) ==
  IF Commented(line) THEN {}
  ELSE { line[j].n : j \in { pickup_pattern(line), tool_pattern(line),
                            simple_tool_pattern(line) } \ {0} }
       \cup { line[j + 1].n : j \in { m104_pattern(line) } \ {0} }

SkipKinds == {"- skipped parking as T", "- skipped pickup as T", "- skipped as T"}

\* out is line commented out with an 'already active' annotation
IsSkipOf(out, line) ==
  \E what \in SkipKinds, t \in Tools : out = SkipAnnotate(line, what, t)

\* number of layers the plan gives to tool t
LayersOf(t) ==
  Cardinality({ k \in 1 .. Len(tool_sequence) : tool_sequence[k] = t })

----------------------------------------------------------------------------
(* C1: in the output of modify_gcode every emitted pickup, heater-preselect, *)
(* generic or leading tool command at or after the first layer marker names *)
(* the tool planned for the layer of its line.                              *)
C1_EmittedCommandsNamePlannedTool ==
  (Rewriting /\ pass = 1) =>
    \A j \in 0 .. (i - 1) :
      LayerOf(j) >= 0 =>
        \A t \in NamedTools(modified_gcode[j + 1]) : t = PlannedTool(j)

\* a command of the second layer was rewritten to the second layer's tool
C1_Witness ==
  /\ pc = "modified" /\ pass = 1
  /\ \E j \in 0 .. (i - 1) :
       /\ LayerOf(j) = 1
       /\ tool_sequence[1] # tool_sequence[2]
       /\ NamedTools(gcode_lines[j + 1]) = {tool_sequence[1]}
       /\ NamedTools(modified_gcode[j + 1]) = {tool_sequence[2]}

(* C2: modify_gcode keeps the number of lines, and output line j comes from *)
(* input line j: it is that line, that line commented out, that line with   *)
(* its tool tokens renumbered, or the heater command built from it; a line  *)
(* the pass has not reached yet is still the input line.                    *)
DerivedFrom(out, line) ==
  \/ out = line
  \/ IsSkipOf(out, line)
  \/ /\ Len(out) = Len(line)
     /\ \A m \in 1 .. Len(line) : out[m].k = line[m].k
  \/ /\ m104_pattern(line) # 0
     /\ \E t \in Tools : out = NewCommand(line, line[m104_pattern(line) + 1].n, t)

C2_LineCountKept ==
  Rewriting =>
    /\ Len(modified_gcode) = Len(gcode_lines)
    /\ \A j \in 1 .. Len(gcode_lines) :
         IF j > i THEN modified_gcode[j] = gcode_lines[j]
         ELSE DerivedFrom(modified_gcode[j], gcode_lines[j])

\* a pass that rewrote one line, commented out another and left a third
C2_Witness ==
  /\ pc = "modified" /\ pass = 1
  /\ \E j, m, l \in 1 .. Len(gcode_lines) :
       /\ IsSkipOf(modified_gcode[j], gcode_lines[j])
       /\ modified_gcode[m] # gcode_lines[m] /\ ~ Commented(modified_gcode[m])
       /\ modified_gcode[l] = gcode_lines[l]

(* C3: the planner returns exactly total_layers entries, never one more,   *)
(* and every entry is an index into the pattern.                           *)
C3_PlanLength ==
  /\ Len(tool_sequence) <= total_layers
  /\ pc = "planned" =>
       /\ Len(tool_sequence) = total_layers
       /\ \A k \in 1 .. Len(tool_sequence) :
            tool_sequence[k] \in 0 .. (Len(ratio_pattern) - 1)

\* the plan ends on the extra layer of a fractional count
C3_Witness ==
  /\ pc = "planned" /\ total_layers >= 3
  /\ \E t \in 1 .. Len(ratio_pattern) :
       /\ HasFraction(ratio_pattern[t]) /\ IntPart(ratio_pattern[t]) >= 1
       /\ tool_sequence[total_layers] = t - 1
       /\ tool_sequence[total_layers - 1] = t - 1
       /\ tool_sequence[total_layers - 2] # t - 1

(* C4: the plan is the sweep (tool t listed floor(count) times, once more   *)
(* for a fractional count) repeated cyclically and cut at total_layers;    *)
(* [1,1] over 4 layers is 0,1,0,1; [2,1] over 6 is 0,0,1,0,0,1; [0.5,0.5]  *)
(* over 4 is 0,1,0,1; a tool of count 0 never appears.                     *)
PerSweep(count) ==
  (count \div Unit) + (IF count % Unit > 0 THEN 1 ELSE 0)

RECURSIVE SweepFrom(_, _)
SweepFrom(pattern, t) ==
  IF t > Len(pattern) THEN << >>
  ELSE [ k \in 1 .. PerSweep(pattern[t]) |-> t - 1 ] \o SweepFrom(pattern, t + 1)

Sweep(pattern) == SweepFrom(pattern, 1)

Reference(total, pattern) ==
  [ k \in 1 .. total |-> Sweep(pattern)[((k - 1) % Len(Sweep(pattern))) + 1] ]

\* the pattern is `counts` (in layers / Unit) for the first tools, 0 for the rest
PatternIs(counts) ==
  \A t \in 1 .. Len(ratio_pattern) :
    ratio_pattern[t] = IF t <= Len(counts) THEN counts[t] ELSE 0

C4_PlanIsCyclicSweep ==
  pc = "planned" =>
    /\ tool_sequence = Reference(total_layers, ratio_pattern)
    /\ (PatternIs(<< Unit, Unit >>) /\ total_layers = 4)
         => tool_sequence = << 0, 1, 0, 1 >>
    /\ (PatternIs(<< 2 * Unit, Unit >>) /\ total_layers = 6)
         => tool_sequence = << 0, 0, 1, 0, 0, 1 >>
    /\ (PatternIs(<< 1, 1 >>) /\ total_layers = 4)
         => tool_sequence = << 0, 1, 0, 1 >>
    /\ \A t \in 1 .. Len(ratio_pattern) :
         ratio_pattern[t] = 0 => LayersOf(t - 1) = 0

\* the plan of [2, 1] over 6 layers
C4_Witness ==
  /\ pc = "planned" /\ total_layers = 6
  /\ PatternIs(<< 2 * Unit, Unit >>)
  /\ tool_sequence = << 0, 0, 1, 0, 0, 1 >>

(* C5, as claimed: the layers given to tool t differ from its share        *)
(* total_layers * count_t / sum(counts) by at most 1 layer.                *)
C5_ShareWithinOneLayer ==
  pc = "planned" =>
    \A t \in 1 .. Len(ratio_pattern) :
      Abs(LayersOf(t - 1) * SumSeq(ratio_pattern) - total_layers * ratio_pattern[t])
        <= SumSeq(ratio_pattern)

(* C5, amended: the layers given to tool t differ from                     *)
(* total_layers * e_t / E by at most e_t layers, where e_t is the number   *)
(* of layers of t in one sweep (count_t rounded up) and E the sum of them. *)
SweepLen(pattern) == SumSeq([ t \in 1 .. Len(pattern) |-> PerSweep(pattern[t]) ])

C5_ShareWithinOneSweepBlock ==
  pc = "planned" =>
    \A t \in 1 .. Len(ratio_pattern) :
      Abs(LayersOf(t - 1) * SweepLen(ratio_pattern)
            - total_layers * PerSweep(ratio_pattern[t]))
        <= PerSweep(ratio_pattern[t]) * SweepLen(ratio_pattern)

\* a plan cut inside a sweep, with a tool more than one layer off its share
C5_Witness ==
  /\ pc = "planned" /\ total_layers > 0
  /\ total_layers % SweepLen(ratio_pattern) # 0
  /\ \E t \in 1 .. Len(ratio_pattern) :
       Abs(LayersOf(t - 1) * SumSeq(ratio_pattern) - total_layers * ratio_pattern[t])
         > SumSeq(ratio_pattern)

(* C6: modify_gcode run on its own output with the same layer positions   *)
(* and tool sequence gives, line for line, the first output or that line   *)
(* with an 'already active' skip annotation added: no command the first    *)
(* pass commented out is emitted again.                                    *)
C6_SecondPassOnlyAnnotates ==
  (Rewriting /\ pass = 2) =>
    \A j \in 1 .. i :
      \/ modified_gcode[j] = first_pass[j]
      \/ IsSkipOf(modified_gcode[j], first_pass[j])

(* C7: an attempt whose ratio pattern sums to 0 is rejected with an error  *)
(* before any file I/O: nothing is read, planned or written.               *)
PatternSumsToZero ==
  /\ \A t \in 1 .. Len(tool_entries) : tool_entries[t] # Invalid
  /\ SumSeq(tool_entries) = 0

C7_ZeroPatternRejected ==
  PatternSumsToZero =>
    /\ effects = {}
    /\ output_content = << >>
    /\ pc \in {"idle", "returned"}
    /\ pc = "returned" => error # ""

\* the rejection of an all-zero pattern for an existing input file
C7_Witness ==
  /\ PatternSumsToZero
  /\ pc = "returned"
  /\ input_exists /\ input_file_var # "" /\ output_file_var # ""
  /\ error = "At least one tool must have a value greater than zero"

(* C8: with current_tool = 2 a pickup line T0 S1 L0 D0 becomes T2 S1 L0 D0 *)
(* and a following identical line, current_tool still 2, is commented out  *)
(* as a redundant pickup.                                                  *)
C8_SecondPickupCommentedOut ==
  (Rewriting /\ pass = 1) =>
    \A j \in 1 .. (i - 1) :
      ( /\ gcode_lines[j] = PickupLine(0)
        /\ gcode_lines[j + 1] = PickupLine(0)
        /\ LayerOf(j - 1) >= 0
        /\ PlannedTool(j - 1) = 2 )
      => /\ modified_gcode[j] = PickupLine(2)
         /\ Commented(modified_gcode[j + 1])

(* C9: parse_layers returns, strictly ascending, exactly the indices of    *)
(* the lines that hold the layer marker, and in process_file the layer     *)
(* count handed to the planner, the length of the returned tool sequence   *)
(* and the number of marker lines are equal.                               *)
MarkerIndices(lines) == { k \in 0 .. (Len(lines) - 1) : IsMarker(lines[k + 1]) }

C9_LayersLocated ==
  ("plan" \in effects) =>
    /\ \A j \in 1 .. (Len(layer_positions) - 1) :
         layer_positions[j] < layer_positions[j + 1]
    /\ { layer_positions[j] : j \in 1 .. Len(layer_positions) }
         = MarkerIndices(gcode_lines)
    /\ total_layers = Cardinality(MarkerIndices(gcode_lines))
    /\ pc \in {"planned", "modify", "modified", "returned"}
         => Len(tool_sequence) = total_layers

\* a written conversion of a file with markers on its first and third line
C9_Witness ==
  /\ pc = "returned" /\ "write" \in effects
  /\ layer_positions = << 0, 2 >>
  /\ Len(tool_sequence) = 2

(* C10, as claimed: active_tool changes only on a line where a pickup or   *)
(* a heater-preselect command naming another tool than current_tool is     *)
(* rewritten.                                                              *)
NamesOtherTool(line, tool) ==
  \/ pickup_pattern(line) # 0 /\ line[pickup_pattern(line)].n # tool
  \/ m104_pattern(line) # 0 /\ line[m104_pattern(line) + 1].n # tool

MatchesToolForm(line) ==
  \/ pickup_pattern(line) # 0
  \/ m104_pattern(line) # 0
  \/ tool_pattern(line) # 0
  \/ simple_tool_pattern(line) # 0

----------------------------------------------------------------------------
(* Vocabulary of the properties about single lines of the output *)

\* out is line commented out with the annotation `what` naming tool t
CommentedOutAs(out, line, what, t) ==
  /\ Len(out) = Len(line) + 3
  /\ out[1] = Tok(";", 0)
  /\ \A m \in 1 .. Len(line) : out[m + 1] = line[m]
  /\ out[Len(line) + 2] = Tok(what, t)
  /\ out[Len(line) + 3].n = t

\* the output line is a pickup command the printer executes
EmittedPickup(out) == ~ Commented(out) /\ pickup_pattern(out) # 0

\* the tool an emitted pickup mounts
PickupTool(out) == out[pickup_pattern(out)].n

\* the pass has just handled the line at index i of the document
LineStep == pc = "modify" /\ i' = i + 1

(* C11: a pickup line that the pass comments out as redundant names the    *)
(* tool that the output mounts at that point: the last emitted pickup      *)
(* before it in the output names that tool.                                *)
C11_SkippedPickupIsMounted ==
  (Rewriting /\ pass = 1) =>
    \A m \in 1 .. i :
      \A t \in Tools :
        ( /\ pickup_pattern(gcode_lines[m]) # 0
          /\ CommentedOutAs(modified_gcode[m], gcode_lines[m],
                            "- skipped pickup as T", t) )
        => \E e \in 1 .. (m - 1) :
             /\ EmittedPickup(modified_gcode[e])
             /\ PickupTool(modified_gcode[e]) = t
             /\ \A x \in (e + 1) .. (m - 1) : ~ EmittedPickup(modified_gcode[x])

(* C12: a line that matches the pickup form while current_tool is set has  *)
(* exactly one of three outcomes.  It names another tool than current_tool: *)
(* its tool token is rewritten to current_tool and active_tool becomes      *)
(* current_tool.  It names current_tool and current_tool is active: it is   *)
(* commented out as a skipped pickup, active_tool stays and no later        *)
(* pattern is evaluated for it.  It names current_tool and current_tool is  *)
(* not active: it is left as it is and active_tool becomes current_tool.    *)
C12_PickupRule ==
  [][ ( /\ LineStep
        /\ current_tool' # None
        /\ pickup_pattern(gcode_lines[i + 1]) # 0 )
      => LET line == gcode_lines[i + 1]
             out == modified_gcode'[i + 1]
             id == line[pickup_pattern(line)].n
             cur == current_tool'
         IN  /\ id # cur =>
                   /\ Len(out) = Len(line)
                   /\ \A m \in 1 .. Len(line) :
                        /\ out[m].k = line[m].k
                        /\ line[m].k \notin TKinds => out[m] = line[m]
                   /\ out[pickup_pattern(line)] = Tok("T", cur)
                   /\ out # line
                   /\ active_tool' = cur
             /\ (id = cur /\ active_tool = cur) =>
                   /\ CommentedOutAs(out, line, "- skipped pickup as T", cur)
                   /\ active_tool' = active_tool
                   /\ ~ branch'[2].cont
                   /\ \A b \in 3 .. 5 : branch'[b] = branch'[2]
             /\ (id = cur /\ active_tool # cur) =>
                   /\ out = line
                   /\ active_tool' = cur ]_vars

\* a pickup of the planned tool, not yet active, has been left as it was
\* and has made the tool active; the same pickup again has been skipped
C12_Witness ==
  /\ pc = "modify" /\ pass = 1 /\ i = 3
  /\ gcode_lines = << MarkerLine, PickupLine(1), PickupLine(1) >>
  /\ tool_sequence = << 1 >>
  /\ modified_gcode[2] = PickupLine(1)
  /\ CommentedOutAs(modified_gcode[3], PickupLine(1), "- skipped pickup as T", 1)
  /\ active_tool = 1

(* C13: a line that matches the heater-preselect form while current_tool   *)
(* is set.  It names current_tool: the line and active_tool are unchanged.  *)
(* It names another tool and current_tool is not active: the heater branch  *)
(* replaces the line by a command for current_tool and active_tool becomes  *)
(* current_tool.  It names another tool and current_tool is active: the     *)
(* line is commented out as skipped, active_tool stays and the generic and  *)
(* leading patterns are not evaluated for it.                               *)
C13_HeaterRule ==
  [][ ( /\ LineStep
        /\ current_tool' # None
        /\ m104_pattern(gcode_lines[i + 1]) # 0 )
      => LET line == gcode_lines[i + 1]
             out == modified_gcode'[i + 1]
             id == line[m104_pattern(line) + 1].n
             cur == current_tool'
         IN  /\ id = cur =>
                   /\ out = line
                   /\ active_tool' = active_tool
             /\ (id # cur /\ active_tool # cur) =>
                   /\ branch'[3].out[1] = Tok("M104.1", 0)
                   /\ branch'[3].out[2] = Tok("T", cur)
                   /\ branch'[3].act = cur
                   /\ active_tool' = cur
             /\ (id # cur /\ active_tool = cur) =>
                   /\ CommentedOutAs(out, line, "- skipped as T", cur)
                   /\ active_tool' = active_tool
                   /\ ~ branch'[3].cont
                   /\ \A b \in 4 .. 5 : branch'[b] = branch'[3] ]_vars

\* a heater command that has the generic form too, naming tool 0 while
\* tool 1 is wanted and active, has been commented out and not renumbered
C13_Witness ==
  /\ pc = "modify" /\ pass = 1 /\ i = 3
  /\ gcode_lines = << MarkerLine, PickupLine(1), HeaterGenericLine(0) >>
  /\ tool_sequence = << 1 >>
  /\ CommentedOutAs(modified_gcode[3], HeaterGenericLine(0), "- skipped as T", 1)
  /\ active_tool = 1

(* C14: a line that matches the park form is commented out as a skipped    *)
(* parking that names current_tool exactly when current_tool is set and is  *)
(* the active tool; in every other case it is in the output unchanged.      *)
(* Handling it changes neither active_tool nor current_tool.                *)
C14_ParkRule ==
  [][ ( /\ LineStep
        /\ park_pattern(gcode_lines[i + 1]) # 0 )
      => LET line == gcode_lines[i + 1]
             out == modified_gcode'[i + 1]
         IN  /\ IF current_tool' # None /\ active_tool = current_tool'
                THEN CommentedOutAs(out, line, "- skipped parking as T",
                                    current_tool')
                ELSE out = line
             /\ active_tool' = active_tool
             /\ current_tool' = current_tool ]_vars

\* in the layer of tool 1 the park line after the pickup of tool 1 has been
\* commented out, and tool 1 is still the active tool
C14_Witness ==
  /\ pc = "modify" /\ pass = 1 /\ i = 3
  /\ gcode_lines = << MarkerLine, PickupLine(1), ParkLine >>
  /\ tool_sequence = << 1 >>
  /\ modified_gcode[2] = PickupLine(1)
  /\ CommentedOutAs(modified_gcode[3], ParkLine, "- skipped parking as T", 1)
  /\ active_tool = 1 /\ current_tool = 1

(* C15: in the output, between a park line and the next park line, a park  *)
(* that was commented out as skipped is followed by no emitted pickup, and  *)
(* a park that was emitted is followed by no pickup that was commented out  *)
(* as redundant.                                                            *)
SkippedPark(m) ==
  /\ park_pattern(gcode_lines[m]) # 0
  /\ \E t \in Tools : CommentedOutAs(modified_gcode[m], gcode_lines[m],
                                      "- skipped parking as T", t)

EmittedPark(m) ==
  /\ park_pattern(gcode_lines[m]) # 0
  /\ modified_gcode[m] = gcode_lines[m]
  /\ ~ Commented(modified_gcode[m])

SkippedPickup(m) ==
  /\ pickup_pattern(gcode_lines[m]) # 0
  /\ \E t \in Tools : CommentedOutAs(modified_gcode[m], gcode_lines[m],
                                      "- skipped pickup as T", t)

NoParkBetween(a, b) ==
  \A x \in (a + 1) .. (b - 1) : park_pattern(gcode_lines[x]) = 0

C15_ParkAndPickupAgree ==
  (Rewriting /\ pass = 1) =>
    \A a \in 1 .. i :
      \A b \in (a + 1) .. i :
        NoParkBetween(a, b) =>
          /\ ~ (SkippedPark(a) /\ EmittedPickup(modified_gcode[b]))
          /\ ~ (EmittedPark(a) /\ SkippedPickup(b))

(* C16: a line before the first layer marker is in the output unchanged    *)
(* and leaves active_tool unset, whatever forms it matches; the pass over a *)
(* document without a layer marker returns the document line for line.      *)
NoMarkerUpTo(m) == \A x \in 1 .. m : ~ IsMarker(gcode_lines[x])

C16_BeforeFirstMarkerUntouched ==
  Rewriting =>
    /\ \A m \in 1 .. Len(gcode_lines) :
         NoMarkerUpTo(m) => modified_gcode[m] = gcode_lines[m]
    /\ NoMarkerUpTo(i) => (active_tool = None /\ current_tool = None)
    /\ (total_layers = 0 /\ pc = "modified") => modified_gcode = gcode_lines

\* a pickup of tool 0 before the first marker has been kept although the
\* layer that follows is planned for tool 1, and the same pickup after the
\* marker has been rewritten
C16_Witness ==
  /\ pc = "modified" /\ pass = 1
  /\ gcode_lines = << PickupLine(0), MarkerLine, PickupLine(0) >>
  /\ tool_sequence = << 1 >>
  /\ modified_gcode = << PickupLine(0), MarkerLine, PickupLine(1) >>

(* C17: current_tool changes only on a line whose index is in              *)
(* layer_positions.  On the k-th such line, k counted from 0, current_layer *)
(* becomes k and current_tool becomes tool_sequence[k] if the sequence has  *)
(* that entry and keeps its value otherwise; on every other line both keep  *)
(* their values.  The marker line itself is handled with the new tool.      *)
IsLayerPosition(idx) ==
  \E j \in 1 .. Len(layer_positions) : layer_positions[j] = idx

PositionsBefore(idx) ==
  Cardinality({ j \in 1 .. Len(layer_positions) : layer_positions[j] < idx })

C17_ToolFollowsLayerPositions ==
  [][ LineStep =>
        LET k == PositionsBefore(i)
            line == gcode_lines[i + 1]
        IN  IF IsLayerPosition(i)
            THEN /\ current_layer' = k
                 /\ current_tool' = IF k < Len(tool_sequence)
                                     THEN tool_sequence[k + 1]
                                     ELSE current_tool
                 /\ ( /\ current_tool' # None
                      /\ simple_tool_pattern(line) # 0
                      /\ line[1].n # current_tool' )
                    => modified_gcode'[i + 1][1] = Tok("T", current_tool')
            ELSE /\ current_layer' = current_layer
                 /\ current_tool' = current_tool ]_vars

\* the second marker line, behind a tool token for tool 0, has been handled
\* with the second layer's tool; the third layer has no entry in the tool
\* sequence and keeps that tool
C17_Witness ==
  /\ pc = "modify" /\ pass = 1 /\ i = 3
  /\ gcode_lines = << MarkerLine, MarkerLeadingLine(0), MarkerLine >>
  /\ tool_sequence = << 1, 2 >>
  /\ modified_gcode[2] = MarkerLeadingLine(2)
  /\ current_layer = 2 /\ current_tool = 2

(* C18: when a line matches more than one form and no early exit is taken  *)
(* the edits accumulate: the generic and the leading rewrite are applied to *)
(* the text that the earlier branches have produced, so a synthesized       *)
(* heater command is still in the output line after them.                   *)
C18_EditsAccumulate ==
  [][ (LineStep /\ current_tool' # None /\ branch'[3].cont) =>
        LET line == gcode_lines[i + 1]
            cur == current_tool'
            after_heater == branch'[3].out
            after_generic ==
              IF tool_pattern(line) # 0 /\ line[tool_pattern(line)].n # cur
              THEN SubWordT(after_heater, cur) ELSE after_heater
            after_leading ==
              IF simple_tool_pattern(line) # 0 /\ line[1].n # cur
              THEN SubLeadingT(after_generic, cur) ELSE after_generic
        IN  modified_gcode'[i + 1] = after_leading ]_vars

(* C19: calculate_tool_distribution returns when total_layers is 0 or some *)
(* count of the pattern is above 0, and never returns when total_layers is  *)
(* above 0 and the pattern is empty or all zero.                            *)
C19_PlannerTermination ==
  /\ (total_layers = 0 \/ SumSeq(ratio_pattern) > 0) ~> (pc = "planned")
  /\ []((total_layers > 0 /\ SumSeq(ratio_pattern) = 0) => pc # "planned")

\* a whole sweep over an all-zero pattern has appended nothing and the
\* while loop is entered again
C19_Witness ==
  /\ total_layers > 0
  /\ Len(ratio_pattern) > 0 /\ SumSeq(ratio_pattern) = 0
  /\ pc = "plan_while" /\ tool_idx = Len(ratio_pattern)
  /\ tool_sequence = << >>

(* C20: the command that replaces a heater-preselect line is M104.1 with   *)
(* T current_tool, P the line's first P value or 120, Q the line's first Q  *)
(* value or that P value + current_tool + 1, S the line's first S value or  *)
(* 210, followed by the line's comment if it has one and else by a          *)
(* 'switched from' comment that names the old and the new tool.             *)
HasKind(line, kind) == \E j \in 1 .. Len(line) : line[j].k = kind

FirstValue(line, kind) ==
  line[CHOOSE j \in 1 .. Len(line) :
         line[j].k = kind /\ \A m \in 1 .. (j - 1) : line[m].k # kind].n

TrailingComment(line) ==
  LET c == CHOOSE j \in 1 .. Len(line) :
             /\ line[j].k \in CommentKinds
             /\ \A m \in 1 .. (j - 1) : line[m].k \notin CommentKinds
  IN  [ m \in 1 .. (Len(line) - c + 1) |-> line[c + m - 1] ]

ExpectedHeaterCommand(line, old, cur) ==
  LET p == IF HasKind(line, "P") THEN FirstValue(line, "P") ELSE 120
      q == IF HasKind(line, "Q") THEN FirstValue(line, "Q") ELSE p + cur + 1
      s == IF HasKind(line, "S") THEN FirstValue(line, "S") ELSE 210
  IN  << Tok("M104.1", 0), Tok("T", cur), Tok("P", p), Tok("Q", q),
         Tok("S", s) >> \o
      ( IF \E j \in 1 .. Len(line) : line[j].k \in CommentKinds
        THEN TrailingComment(line)
        ELSE << Tok("; switched from T", old), Tok("(name)", old),
                Tok("to T", cur), Tok("(name)", cur) >> )

C20_SynthesizedHeaterCommand ==
  [][ ( /\ LineStep
        /\ current_tool' # None
        /\ m104_pattern(gcode_lines[i + 1]) # 0
        /\ gcode_lines[i + 1][m104_pattern(gcode_lines[i + 1]) + 1].n
             # current_tool'
        /\ active_tool # current_tool' )
      => LET line == gcode_lines[i + 1]
             old == line[m104_pattern(line) + 1].n
             expected == ExpectedHeaterCommand(line, old, current_tool')
         IN  /\ branch'[3].out = expected
             /\ (tool_pattern(line) = 0 /\ simple_tool_pattern(line) = 0)
                  => modified_gcode'[i + 1] = expected ]_vars

\* 'M104.1 T1 P100' in a layer of tool 2 has become the command with P100,
\* Q103 and S210 and the 'switched from' comment
C20_Witness ==
  /\ pc = "modify" /\ pass = 1 /\ i = 2
  /\ gcode_lines[1] = MarkerLine
  /\ gcode_lines[2] = HeaterPLine(1)
  /\ tool_sequence = << 2 >>
  /\ modified_gcode[2] =
       << Tok("M104.1", 0), Tok("T", 2), Tok("P", 100), Tok("Q", 103),
          Tok("S", 210), Tok("; switched from T", 1), Tok("(name)", 1),
          Tok("to T", 2), Tok("(name)", 2) >>
  /\ active_tool = 2

====
